---------------------------- MODULE Spec2Model ----------------------------
(***************************************************************************)
(* GeneAlphaAI/influencer-agent: the tweet-ingestion pipeline.             *)
(*                                                                         *)
(*   main.py            fetch_influencers_tweets (the Ingestion Loop)      *)
(*   utils/x_api.py     get_user_tweets, get_token_price                   *)
(*   utils/gpt_client.py tweet_analysis and its tool-call round trip       *)
(*   utils/mongo_service.py check_tweet_exists, save_tweet,                *)
(*                      get_all_unique_x_influencers_ids                   *)
(*   utils/models.py    SummaryModel, TweetModel                           *)
(*                                                                         *)
(* Every coroutine is cut at its await points: one action is the code      *)
(* between two awaits, together with the outcome of the awaited call.      *)
(***************************************************************************)
EXTENDS Integers, Sequences, FiniteSets, Bags, TLC

\* ------------------------------------------------------------------ bounds

\* invocations of fetch_influencers_tweets that are started
MaxRuns == 2
\* documents of db.accounts
MaxAccounts == 15
\* posts in one provider response (the code asks for max_results=5)
MaxFetch == 2
\* a reported reset lies at most MaxTime seconds ahead
MaxTime == 1
\* tool calls requested by one model response
MaxToolCalls == 2

\* ------------------------------------------------------- program constants

\* main.py:44
BATCH_SIZE == 10
\* main.py:67, the default of x-rate-limit-reset is time.time() + 900
DEFAULT_RESET == 900

\* the instances of one job the scheduler lets run at once: add_job is
\* called without max_instances, the scheduler's default applies
MAX_INSTANCES == 1
\* main.py:100, asyncio.sleep(900) between two batches
BATCH_PAUSE == 900

\* the trailing window of get_last_24h_predicted_tweets, in seconds
WINDOW_SECONDS == 86400

\* the interval of the job combined_prediction_analysis (hours=12), in seconds
AGG_INTERVAL == 43200

Procs == {1, 2}

None == "<None>"

\* ------------------------------------------------------------ small helpers

Min(a, b) == IF a < b THEN a ELSE b

Max(a, b) == IF a > b THEN a ELSE b

Range(s) == {s[n] : n \in 1..Len(s)}

\* the value of a TLA+ string built from characters

\* str.isdigit(): non-empty and every character a digit
isdigit(s) ==
    /\ Len(s) > 0
    /\ \A n \in 1..Len(s) : s[n] \in {"0", "1", "2", "3", "4", "5", "6", "7", "8", "9"}

\* str.lower() on the handles of the model; None has no lower() (AttributeError)
lower(s) ==
    CASE s = "Alice" -> "alice"
      [] s = "ALICE" -> "alice"
      [] s = "Bob" -> "bob"
      [] OTHER -> s

\* ------------------------------------------------------- the outside world

\* db.accounts: one document per searched influencer (save_account_info keys
\* the document by the username as given, so one x_user_id may occur twice).
\* has_id = FALSE is a document whose x_user_id is null.
Doc(u, h, x) == [username |-> u, has_id |-> h, x_user_id |-> x]

ID_ALICE == <<"1", "1", "1">>

ID_BOB == <<"2", "2", "2">>

ID_FLAKY == <<"3", "3", "3">>

ID_PACED == <<"4">>

\* the quiet accounts come first and fill the first batch of ten ids (the
\* invalid id "12a" is one of the ten, the null and the empty id are not
\* listed); alice opens the second batch
AccountDocs ==
    << Doc("paced", TRUE, ID_PACED),
       Doc("ghost", FALSE, <<>>),
       Doc("bad", TRUE, <<"1", "2", "a">>),
       Doc("q5", TRUE, <<"5">>),
       Doc("blank", TRUE, <<>>),
       Doc("q6", TRUE, <<"6">>),
       Doc("q7", TRUE, <<"7">>),
       Doc("q8", TRUE, <<"8">>),
       Doc("q9", TRUE, <<"9">>),
       Doc("flaky", TRUE, ID_FLAKY),
       Doc("q10", TRUE, <<"1", "0">>),
       Doc("q11", TRUE, <<"1", "1">>),
       Doc("alice", TRUE, ID_ALICE),
       Doc("Alice", TRUE, ID_ALICE),
       Doc("bob", TRUE, ID_BOB),
       Doc("q12", TRUE, <<"1", "2">>),
       Doc("q13", TRUE, <<"1", "3">>) >>

\* created_at strings: the format and the instant the string denotes
Stamp(f, t) == [fmt |-> f, t |-> t]

Post(id, c) == [id |-> id, created_at |-> c]

\* what the provider holds for a user id
ProviderPosts(user_id) ==
    CASE user_id = ID_ALICE ->
            { Post("987", Stamp("isoZ", 1)), Post("988", Stamp("isoZ", 2)),
              Post("989", Stamp("native", 3)) }
      [] user_id = ID_BOB -> { Post("987", Stamp("isoZ", 1)) }
      [] OTHER -> {}

\* the handle of includes.users for a user id (None: the user is not included)
ProviderHandles(user_id) ==
    CASE user_id = ID_ALICE -> {"alice", "Alice", None}
      [] user_id = ID_BOB -> {"bob"}
      [] OTHER -> {None}

\* whether the transport to the provider can fail for this user id
ProviderCanFail(user_id) == user_id \in {ID_ALICE, ID_FLAKY}

\* whether the provider can report an exhausted budget for this user id
ProviderCanExhaust(user_id) == user_id = ID_ALICE

\* whether the provider sends the rate-limit headers with budget left
ProviderSendsBudget(user_id) == user_id = ID_PACED

\* sequences without repetition, of length 1..n, over the set S
RECURSIVE Lists(_, _)
Lists(S, n) ==
    IF n = 0 \/ S = {} THEN {<<>>}
    ELSE {<<>>} \cup { <<x>> \o rest : x \in S, rest \in Lists(S, n - 1) }

DistinctLists(S, n) ==
    { l \in Lists(S, n) : Len(l) > 0 /\ Cardinality(Range(l)) = Len(l) }


\* ------------------------------------------------- utils/mongo_service.py

\* the values of a sequence in the order of their first occurrence
RECURSIVE Distinct(_)
Distinct(s) ==
    IF s = <<>> THEN <<>>
    ELSE LET front == Distinct(SubSeq(s, 1, Len(s) - 1))
             last == s[Len(s)]
         IN  IF last \in Range(front) THEN front ELSE Append(front, last)

\* db.accounts.distinct("x_user_id"): null is one of the values
distinct_x_user_id(docs) ==
    Distinct([n \in 1..Len(docs) |->
                 [has_id |-> docs[n].has_id, x_user_id |-> docs[n].x_user_id]])

\* [uid for uid in user_ids if uid]: None and "" are dropped
get_all_unique_x_influencers_ids(docs) ==
    LET user_ids == distinct_x_user_id(docs)
        keep == SelectSeq(user_ids, LAMBDA u : u.has_id /\ u.x_user_id # <<>>)
    IN  [n \in 1..Len(keep) |-> keep[n].x_user_id]

\* a document of db.tweets (TweetModel.dict()); has_summary = FALSE is
\* summary = None
Tweet(tid, acc, at, hs, pred, reason) ==
    [tweet_id |-> tid, account_name |-> acc, created_at |-> at,
     has_summary |-> hs, prediction |-> pred, reason |-> reason]

\* tweets_collection.find_one({"account_name": ..., "tweet_id": ...})
find_one(coll, account_key, tweet_id) ==
    { d \in BagToSet(coll) : d.account_name = account_key /\ d.tweet_id = tweet_id }

\* the documents of the account are replaced by the new one
ReplaceLatest(coll, doc) ==
    LET kept == { d \in BagToSet(coll) : d.account_name # doc.account_name }
    IN  [d \in kept |-> CopiesIn(d, coll)] (+) SetToBag({doc})

\* tweets_collection.insert_one(tweet_dict): one more document, the others
\* are left as they are
insert_one(coll, doc) == coll (+) SetToBag({doc})

\* the number of documents of the collection under one key
CountKey(coll, account_key, tweet_id) ==
    LET S == find_one(coll, account_key, tweet_id)
    IN  IF S = {} THEN 0
        ELSE LET Sum[T \in SUBSET S] ==
                     IF T = {} THEN 0
                     ELSE LET d == CHOOSE x \in T : TRUE
                          IN  CopiesIn(d, coll) + Sum[T \ {d}]
             IN  Sum[S]

\* the key check_tweet_exists looks up with the account name as given
RawKey(account_name) == account_name

\* account_key = account_name.lower() of check_tweet_exists
CheckKey(account_name) == lower(account_name)

\* check_tweet_exists: store_ok = FALSE is a store call that raises;
\* a None account name raises AttributeError at .lower(); both are caught
check_tweet_exists(coll, account_name, tweet_id, store_ok) ==
    IF account_name = None \/ ~store_ok THEN "failed"
    ELSE IF find_one(coll, CheckKey(account_name), tweet_id) # {} THEN "exists"
    ELSE "not_found"

\* the parsed result of the model, a Python dict: the keys it has and the
\* values of the keys the pipeline reads
Dict(keys, isp, reason, raw) ==
    [keys |-> keys, is_prediction |-> isp, reason |-> reason, raw_response |-> raw]

\* Python truthiness of a dict
Truthy(d) == d.keys # {}

\* a SummaryModel whose fields are all optional
AllOptional(d) == TRUE

\* SummaryModel(**summary_data) validates: is_prediction is the one required
\* field (models.py:10), unknown keys are ignored
SummaryModelValid(d) == "is_prediction" \in d.keys

\* created_at of save_tweet: fromisoformat (ISO with Z, and the space
\* separated form, which fromisoformat accepts too), then strptime with
\* "%Y-%m-%d %H:%M:%S", then utcnow(); a missing value is utcnow().
\* TweetModel.parse_datetime gets the datetime this gives, never the
\* string, and returns a datetime as it is (models.py:35 and 48)
save_created_at(c, clock) ==
    IF c.fmt \in {"isoZ", "space"} THEN c.t ELSE clock

\* summary_obj = SummaryModel(**summary_data) raises (lines 187-190): the
\* dict is truthy and lacks the required field
SummaryRaises(summary_data) ==
    Truthy(summary_data) /\ ~SummaryModelValid(summary_data)

\* the document save_tweet builds (lines 185-219) when nothing raises
save_tweet_document(account_name, tweet_data, summary_data, clock) ==
    Tweet(tweet_data.id, lower(account_name),
          save_created_at(tweet_data.created_at, clock),
          Truthy(summary_data),
          IF Truthy(summary_data) THEN summary_data.is_prediction ELSE FALSE,
          IF Truthy(summary_data) /\ "reason" \in summary_data.keys
              THEN summary_data.reason ELSE None)

\* ------------------------------------------------------------ utils/x_api.py

Hdr(h, v) == [has |-> h, v |-> v]

Headers(rem, reset) == [remaining |-> rem, reset |-> reset]

\* r.headers of a failed request: get_user_tweets returns [], {}
NoHeaders == Headers(Hdr(FALSE, 0), Hdr(FALSE, 0))

\* get_user_tweets: every tweet gets the handle of includes.users; a failed
\* request gives ([], {})
get_user_tweets(ok, data, handle, headers) ==
    IF ok
    THEN [tweets |-> [n \in 1..Len(data) |->
                         [id |-> data[n].id, created_at |-> data[n].created_at,
                          username |-> handle]],
          headers |-> headers]
    ELSE [tweets |-> <<>>, headers |-> NoHeaders]

\* one provider of get_token_price: a price, no price, or an exception that
\* the provider function does not catch
Quote(kind, v) == [kind |-> kind, v |-> v]

\* the provider functions, in the order get_token_price calls them
Providers == <<"cryptocompare", "binance", "gecko">>

\* the last provider that has a price wins
LastPriceWins(cc, bn, gk) ==
    IF gk.kind = "price" THEN gk
    ELSE IF bn.kind = "price" THEN bn
    ELSE cc

\* get_token_price: CryptoCompare, then Binance, then CoinGecko
get_token_price(cc, bn, gk) ==
    IF cc.kind # "none" THEN cc
    ELSE IF bn.kind # "none" THEN bn
    ELSE gk

\* the provider functions one call of get_token_price calls, in call order:
\* a provider is called when the one before it returned None
providers_queried(cc, bn, gk) ==
    IF cc.kind # "none" THEN SubSeq(Providers, 1, 1)
    ELSE IF bn.kind # "none" THEN SubSeq(Providers, 1, 2)
    ELSE Providers

\* ----------------------------------------------------------------- main.py

\* int(headers.get("x-rate-limit-remaining", 1))
RemainingOf(headers) ==
    IF headers.remaining.has THEN headers.remaining.v ELSE 1

\* int(headers.get("x-rate-limit-reset", time.time() + 900))
ResetOf(headers, clock) ==
    IF headers.reset.has THEN headers.reset.v ELSE clock + DEFAULT_RESET

\* datetime.fromisoformat(created_at.replace("Z", "+00:00")) raises
\* ValueError on the provider's native format
CanParseIso(c) == c.fmt \in {"isoZ", "space"}

SortRaises(tweets) == \E n \in 1..Len(tweets) : ~CanParseIso(tweets[n].created_at)

\* the sort key: the instant the created_at string denotes
SortKey(t) == t.created_at.t

\* a stable sort by ascending key (sort without reverse=True)
RECURSIVE SortAscending(_)
SortAscending(tweets) ==
    IF tweets = <<>> THEN <<>>
    ELSE LET front == SortAscending(SubSeq(tweets, 1, Len(tweets) - 1))
             x == tweets[Len(tweets)]
             before == SelectSeq(front, LAMBDA y : SortKey(y) <= SortKey(x))
             after == SelectSeq(front, LAMBDA y : SortKey(y) > SortKey(x))
         IN  before \o <<x>> \o after

\* tweets.sort(key=..., reverse=True): stable, so of two equal keys the one
\* that came first stays first
RECURSIVE SortDescending(_)
SortDescending(tweets) ==
    IF tweets = <<>> THEN <<>>
    ELSE LET front == SortDescending(SubSeq(tweets, 1, Len(tweets) - 1))
             x == tweets[Len(tweets)]
             before == SelectSeq(front, LAMBDA y : SortKey(y) >= SortKey(x))
             after == SelectSeq(front, LAMBDA y : SortKey(y) < SortKey(x))
         IN  before \o <<x>> \o after

\* lines 70-75
sort_tweets(tweets) == SortDescending(tweets)

\* if not user_id or not str(user_id).isdigit(): skip
ValidId(user_id) == user_id # <<>> /\ isdigit(user_id)

\* an id check that accepts everything
AnyId(user_id) == TRUE

IsValid(user_id) == ValidId(user_id)

\* ------------------------------------------------------ utils/gpt_client.py

\* final answers of the model
TXT_PRED == "{\"is_prediction\": true, \"token\": \"BTC\", \"reason\": \"price target\"}"

TXT_NOPRED == "{\"is_prediction\": false, \"reason\": \"news\"}"

TXT_EMPTY_OBJECT == "{}"

TXT_OTHER_OBJECT == "{\"answer\": \"yes\"}"

TXT_PROSE == "Sure, here is my analysis"

\* line 206
TXT_EMPTY_RESPONSE == "{\"is_prediction\": false, \"reason\": \"empty GPT response\"}"

Contents == {None, "  ", TXT_PRED, TXT_OTHER_OBJECT, TXT_PROSE}

\* str.strip() on the texts of the model
strip(text) ==
    CASE text = "  " -> ""
      [] text = " Bob " -> "Bob"
      [] OTHER -> text

\* whether json.loads(text) returns
json_ok(text) ==
    text \in {TXT_PRED, TXT_NOPRED, TXT_EMPTY_OBJECT, TXT_OTHER_OBJECT, TXT_EMPTY_RESPONSE}

\* json.loads(text), for a text it parses
json_loads(text) ==
    CASE text = TXT_PRED ->
            Dict({"is_prediction", "token", "reason"}, TRUE, "price target", None)
      [] text = TXT_NOPRED -> Dict({"is_prediction", "reason"}, FALSE, "news", None)
      [] text = TXT_EMPTY_RESPONSE ->
            Dict({"is_prediction", "reason"}, FALSE, "empty GPT response", None)
      [] text = TXT_OTHER_OBJECT -> Dict({"answer"}, FALSE, None, None)
      [] OTHER -> Dict({}, FALSE, None, None)

\* line 216: {"error": str(error), "status": "failed"}
FailedResult == Dict({"error", "status"}, FALSE, None, None)

\* line 212: {"raw_response": response, "parse_error": str(parse_err)}
ParseErrorResult(response) == Dict({"raw_response", "parse_error"}, FALSE, None, response)

\* lines 205-212: the result of tweet_analysis for a final answer
final_answer(response) ==
    LET text == IF response = None \/ strip(response) = ""
                THEN TXT_EMPTY_RESPONSE ELSE response
    IN  IF json_ok(text) THEN json_loads(text) ELSE ParseErrorResult(text)

ToolCall(id, name, arguments) == [id |-> id, name |-> name, arguments |-> arguments]

ARGS_BTC == "{\"symbol\": \"BTC\"}"

ARGS_BAD == "{\"symbol\": "

ToolCallKinds ==
    { [name |-> "get_token_price", arguments |-> ARGS_BTC],
      [name |-> "get_token_price", arguments |-> ARGS_BAD],
      [name |-> "get_stock_price", arguments |-> ARGS_BTC],
      [name |-> "get_stock_price", arguments |-> ARGS_BAD] }

\* the tool_calls of one model response: call n has id n
ToolCallLists ==
    UNION { { [n \in 1..len |-> ToolCall(n, kinds[n].name, kinds[n].arguments)] :
                kinds \in [1..len -> ToolCallKinds] } : len \in 1..MaxToolCalls }

ToolResult(raised, id, name, content) ==
    [raised |-> raised, tool_call_id |-> id, function_name |-> name, content |-> content]

\* str(price)
PriceStr(v) == CASE v = 0 -> "0" [] v = 5 -> "5" [] v = 6 -> "6" [] OTHER -> "7"

\* execute_tool_call: json.loads of the arguments, then _dispatch_tool_call;
\* an HTTPException (unknown function) is raised again, every other
\* exception becomes an error string
execute_tool_call(tool_call, cc, bn, gk) ==
    IF tool_call.arguments = ARGS_BAD
    THEN ToolResult(FALSE, tool_call.id, tool_call.name, "Error executing function")
    ELSE IF tool_call.name # "get_token_price"
    THEN ToolResult(TRUE, tool_call.id, tool_call.name, None)
    ELSE LET result == get_token_price(cc, bn, gk)
         IN  IF result.kind = "raise"
             THEN ToolResult(FALSE, tool_call.id, tool_call.name, "Error executing function")
             ELSE ToolResult(FALSE, tool_call.id, tool_call.name,
                             IF result.kind = "price" /\ result.v # 0
                             THEN PriceStr(result.v) ELSE "No data found.")

Msg(role, tool_call_id, content) ==
    [role |-> role, tool_call_id |-> tool_call_id, content |-> content]

\* create_gpt_messages: the system prompt and the tweet
create_gpt_messages(data) == << Msg("system", 0, "prompt"), Msg("user", 0, data.id) >>

\* the tool messages in the order the results came in last
CompletionOrder(tool_results) ==
    [n \in 1..Len(tool_results) |->
        Msg("tool", tool_results[Len(tool_results) + 1 - n].tool_call_id,
            tool_results[Len(tool_results) + 1 - n].content)]

\* lines 159-165 of handle_tool_calls
tool_messages(tool_results) ==
    [n \in 1..Len(tool_results) |->
        Msg("tool", tool_results[n].tool_call_id, tool_results[n].content)]

\* a second response that asks for tools again starts another round
AnotherRound(tool_calls) == IF tool_calls # <<>> THEN "tools" ELSE "final"

\* lines 200-201: of the second response only the content is read
after_final_completion(tool_calls) == "final"

\* ------------------------------------------------------------------ state

VARIABLES
    db_accounts,   \* the documents of db.accounts, in natural order
    db_tweets,     \* the documents of db.tweets: a bag, the store has no unique index
    clock,         \* int(time.time())
    runs,          \* invocations of fetch_influencers_tweets started so far
    pc,            \* per invocation slot: where the coroutine is suspended
    frame,         \* per invocation slot: the locals of the coroutine
    obs,           \* per invocation slot: what the invocation has done so far
    sequences,     \* the (account, post id) of the finished check-then-save sequences,
                   \* and the mark of those whose last sequence had an extraction error
    db_users,      \* the documents of db.users
    db_combined,   \* the combined predictions that have been persisted: a bag
    http,          \* the request an agent endpoint handled last, and its response
    job            \* combined_prediction_analysis: its position, locals and doings

vars == <<db_accounts, db_tweets, clock, runs, pc, frame, obs, sequences,
          db_users, db_combined, http, job>>

\* {"username": ..., "influence": ...}
AccountRef(username, influence) == [username |-> username, influence |-> influence]

\* AgentModel(...).dict() without created_at
Agent(agent, accounts, categories) ==
    [agent |-> agent, accounts |-> accounts, categories |-> categories]

\* the handles the agents of the users reference
ReferencedHandles(users) ==
    UNION { UNION { { u.agents[a].accounts[n].username :
                        n \in 1..Len(u.agents[a].accounts) } :
                    a \in 1..Len(u.agents) } : u \in users }

\* db.users when the passes begin: one user (UserModel(...).dict() without
\* created_at) whose agent references the accounts of db.accounts that were
\* given to it through /user/agent/create; the other documents of
\* db.accounts come from /influencer/search alone, which saves the account
\* (main.py 359) and links it to no agent
InitialUsers(accounts) ==
    LET linked == SelectSeq(accounts,
                            LAMBDA d : d.username \in {"ghost", "alice", "bob"})
    IN  IF linked = <<>> THEN {}
        ELSE { [walletAddress |-> "0xA",
                agents |-> << Agent("alpha",
                                    [n \in 1..Len(linked) |->
                                        AccountRef(linked[n].username, 50)],
                                    {"crypto"}) >>] }

\* no request has been handled
NoResponse ==
    [endpoint |-> None, lacks_required |-> FALSE, status_code |-> 0, changed |-> FALSE]

\* combined_prediction_analysis is not running
IdleJob ==
    [pc |-> "idle", tweets_data |-> {}, tweet_analysis |-> {},
     reads |-> 0, model_calls |-> 0, saves |-> 0, written |-> 0,
     window_empty |-> FALSE, model_failed |-> FALSE, save_failed |-> FALSE,
     raised |-> FALSE]

NoPost == [id |-> None, created_at |-> Stamp("none", 0), username |-> None]

NoDict == Dict({}, FALSE, None, None)

NoTweet == Tweet(None, None, 0, FALSE, FALSE, None)

\* the locals of fetch_influencers_tweets and of the calls it is suspended in
EmptyFrame ==
    [ids |-> <<>>, i |-> 0, k |-> 0, tweets |-> <<>>, remaining |-> 1,
     reset_time |-> 0, most_recent |-> NoPost, res |-> "unset",
     messages |-> <<>>, tool_calls |-> <<>>, tool_results |-> <<>>,
     response |-> None, tweet_analysis_result |-> NoDict, tweet_dict |-> NoTweet,
     save_result |-> "unset", save_error |-> "none", sleep_until |-> 0,
     started |-> 0, save_calls |-> 0]

\* the locals of one account's processing, dropped when the next begins
Cleared(f) ==
    [EmptyFrame EXCEPT !.ids = f.ids, !.i = f.i, !.k = f.k]

\* requests: model requests issued for the current post
\* fetch_log: the user ids get_user_tweets was called with, in order
\* save_log: the user ids of the accounts save_tweet was called for, in order
\* failed: some account of this invocation failed (fetch, sort, check,
\*         analysis or save)
\* again: the sequence that has just finished was not the first for its post
\* asked_again: the follow-up response asked for tool calls once more
\* lookup: the call of get_token_price of the tool call that finished last
\* overlapped: a tool call began while an earlier one had not finished
\* skipped: the trigger fired while this pass was in flight and the
\*          scheduler skipped the run
\* store_before: db.tweets when the processing of the current account began
NoLookup ==
    [called |-> FALSE, cc |-> Quote("none", 0), bn |-> Quote("none", 0),
     gk |-> Quote("none", 0), queried |-> <<>>, result |-> Quote("none", 0)]

EmptyObs ==
    [requests |-> 0, fetch_log |-> <<>>, failed |-> FALSE, again |-> FALSE,
     asked_again |-> FALSE, lookup |-> NoLookup, overlapped |-> FALSE,
     skipped |-> FALSE, save_log |-> <<>>,
     store_before |-> EmptyBag]

MarkFailed(o, k) == [o EXCEPT !.failed = TRUE]

Running(p) == pc[p] \notin {"idle"}

\* the instances of the job fetch_influencers_tweets in flight
RunningInstances == Cardinality({q \in Procs : Running(q)})

\* the scheduler submits every run that falls due
AlwaysStart == TRUE

\* add_job at line 149 passes no max_instances: the scheduler submits a run
\* of the job only while fewer than MAX_INSTANCES instances of it run
may_start == RunningInstances < MAX_INSTANCES

\* ------------------------------------------------ the loop of main.py 53-100

\* where the for loops go after the account at position k
NextStop(f) ==
    IF f.k < Min(f.i + BATCH_SIZE, Len(f.ids)) THEN "account"
    ELSE IF f.i + BATCH_SIZE < Len(f.ids) THEN "batch_sleep"
    ELSE "done"

\* the next iteration of the inner loop (also what `continue` does)
Continue(f) ==
    [pc |-> NextStop(f),
     frame |-> IF NextStop(f) = "account" THEN [f EXCEPT !.k = @ + 1] ELSE f]

\* an exception that leaves fetch_influencers_tweets
Propagate(f) == [pc |-> "crashed", frame |-> f]

\* lines 94-95: except Exception: log, then the next account
on_exception(f) == Continue(f)

\* lines 88-92: sleep until the reset when out of requests; asyncio.sleep of
\* a negative delay returns at once
rate_limit_pause(f, now) ==
    IF f.remaining = 0
    THEN [pc |-> "rl_sleep",
          frame |-> [f EXCEPT !.sleep_until = now + Max(f.reset_time - now, 0)]]
    ELSE Continue(f)

\* a failed save is attempted again
RetrySave(f, status, error, now) ==
    IF status = "failed" /\ error = "store" /\ f.save_calls < 2
    THEN [pc |-> "save_find", frame |-> [f EXCEPT !.save_calls = @ + 1]]
    ELSE rate_limit_pause([f EXCEPT !.save_result = status, !.save_error = error], now)

\* save_tweet returns to line 86
save_returns(f, status, error, now) ==
    rate_limit_pause([f EXCEPT !.save_result = status, !.save_error = error], now)

\* tweet_analysis returns to line 84 (its own locals are gone; the final
\* answer is kept beside the result) and save_tweet runs to its first await;
\* account_name.lower() of a None handle raises and is caught at once
analysis_returns(f, result, response, now) ==
    LET g == [f EXCEPT !.tweet_analysis_result = result, !.response = response,
                       !.messages = <<>>, !.tool_calls = <<>>, !.tool_results = <<>>,
                       !.save_calls = @ + 1]
    IN  IF g.most_recent.username = None
        THEN save_returns(g, "failed", "attribute", now)
        ELSE [pc |-> "save_find", frame |-> g]

Apply(p, r) ==
    /\ pc' = [pc EXCEPT ![p] = r.pc]
    /\ frame' = [frame EXCEPT ![p] = r.frame]

KeyOf(f) == <<lower(f.most_recent.username), f.most_recent.id>>

\* a check-then-save sequence for the post of f has finished
\* the mark of a post of which a sequence ended on the error result of
\* tweet_analysis while the store had no record of the post, and of which
\* no sequence has inserted a record since
ExtractionFailed(key) == key \o <<"extraction failed">>

Finished(f) ==
    sequences' = sequences \cup {KeyOf(f)} \cup
        (IF /\ "error" \in f.tweet_analysis_result.keys
            /\ CountKey(db_tweets, KeyOf(f)[1], KeyOf(f)[2]) = 0
         THEN {ExtractionFailed(KeyOf(f))} ELSE {})

Again(o, f) == [o EXCEPT !.again = KeyOf(f) \in sequences]

Init ==
    /\ db_accounts \in { SubSeq(AccountDocs, 1, n) : n \in 0..MaxAccounts }
    /\ db_tweets = EmptyBag
    /\ clock = 0
    /\ runs = 0
    /\ pc = [p \in Procs |-> "idle"]
    /\ frame = [p \in Procs |-> EmptyFrame]
    /\ obs = [p \in Procs |-> EmptyObs]
    /\ sequences = {}
    /\ db_users = InitialUsers(db_accounts)
    /\ db_combined = EmptyBag
    /\ http = NoResponse
    /\ job = IdleJob

\* the scheduler starts fetch_influencers_tweets; line 51 lists the ids.
\* overlap = FALSE: no pass is started while another is in flight
Start(p, overlap) ==
    /\ pc[p] = "idle"
    /\ runs < MaxRuns
    /\ overlap \/ may_start
    /\ runs' = runs + 1
    /\ \E store_ok \in BOOLEAN :
          IF store_ok
          THEN LET l == get_all_unique_x_influencers_ids(db_accounts)
               IN  /\ pc' = [pc EXCEPT ![p] = IF l = <<>> THEN "done" ELSE "account"]
                   /\ frame' = [frame EXCEPT ![p] =
                                   [EmptyFrame EXCEPT !.ids = l,
                                                      !.k = IF l = <<>> THEN 0 ELSE 1]]
          ELSE /\ pc' = [pc EXCEPT ![p] = "list_failed"]
               /\ frame' = [frame EXCEPT ![p] = EmptyFrame]
    /\ obs' = [obs EXCEPT ![p] = EmptyObs]
    /\ UNCHANGED <<db_users, db_combined, http, job, db_accounts, db_tweets, clock, sequences>>

\* lines 57-59: an invalid id is skipped
SkipInvalid(p) ==
    /\ pc[p] = "account"
    /\ ~IsValid(frame[p].ids[frame[p].k])
    /\ Apply(p, Continue(frame[p]))
    /\ UNCHANGED <<db_users, db_combined, http, job, db_accounts, db_tweets, clock, runs, obs, sequences>>

\* the headers a provider response can carry at time now
ResponseHeaders(user_id, now) ==
    {NoHeaders} \cup
    (IF ProviderSendsBudget(user_id)
     THEN {Headers(Hdr(TRUE, 1), Hdr(TRUE, now + MaxTime))} ELSE {}) \cup
    (IF ProviderCanExhaust(user_id)
     THEN { Headers(Hdr(TRUE, 0), Hdr(TRUE, now + d)) : d \in 0..MaxTime }
     ELSE {})

\* lines 61-78: get_user_tweets (a blocking call), the headers, the sort,
\* and check_tweet_exists up to its find_one; the check of a None handle
\* fails at once and tweet_analysis is called
Fetch(p) ==
    /\ pc[p] = "account"
    /\ IsValid(frame[p].ids[frame[p].k])
    /\ LET user_id == frame[p].ids[frame[p].k]
           f0 == Cleared(frame[p])
           o0 == [obs[p] EXCEPT !.fetch_log = Append(@, user_id), !.requests = 0,
                                !.again = FALSE, !.store_before = db_tweets]
       IN  \E ok \in {TRUE} \cup (IF ProviderCanFail(user_id) THEN {FALSE} ELSE {}),
              data \in DistinctLists(ProviderPosts(user_id), MaxFetch) \cup {<<>>},
              handle \in ProviderHandles(user_id),
              headers \in ResponseHeaders(user_id, clock) :
              LET r == get_user_tweets(ok, data, handle, headers)
                  f1 == [f0 EXCEPT !.tweets = r.tweets,
                                   !.remaining = RemainingOf(r.headers),
                                   !.reset_time = ResetOf(r.headers, clock)]
                  o1 == o0
              IN  /\ ok \/ (data = <<>> /\ headers = NoHeaders /\ handle = None)
                  /\ IF r.tweets = <<>>
                     THEN /\ Apply(p, rate_limit_pause(f1, clock))
                          /\ obs' = [obs EXCEPT ![p] =
                                        IF ok THEN o1 ELSE MarkFailed(o1, f1.k)]
                     ELSE IF SortRaises(r.tweets)
                     THEN /\ Apply(p, on_exception(f1))
                          /\ obs' = [obs EXCEPT ![p] = MarkFailed(o1, f1.k)]
                     ELSE LET sorted == sort_tweets(r.tweets)
                              f2 == [f1 EXCEPT !.tweets = sorted,
                                               !.most_recent = sorted[1]]
                          IN  IF handle = None
                              THEN /\ Apply(p, [pc |-> "analysis", frame |->
                                         [f2 EXCEPT !.res = "failed"]])
                                   /\ obs' = [obs EXCEPT ![p] = MarkFailed(o1, f1.k)]
                              ELSE /\ Apply(p, [pc |-> "check", frame |-> f2])
                                   /\ obs' = [obs EXCEPT ![p] = o1]
    /\ UNCHANGED <<db_users, db_combined, http, job, db_accounts, db_tweets, clock, runs, sequences>>

\* lines 78-84: find_one of check_tweet_exists answers; a stored post is
\* skipped with `continue`, for any other status tweet_analysis is called
Check(p) ==
    /\ pc[p] = "check"
    /\ \E store_ok \in BOOLEAN :
          LET f == frame[p]
              status == check_tweet_exists(db_tweets, f.most_recent.username,
                                           f.most_recent.id, store_ok)
              g == [f EXCEPT !.res = status]
          IN  IF status = "exists"
              THEN /\ Apply(p, Continue(g))
                   /\ Finished(g)
                   /\ obs' = [obs EXCEPT ![p] = Again(@, g)]
              ELSE /\ Apply(p, [pc |-> "analysis", frame |-> g])
                   /\ sequences' = sequences
                   /\ obs' = [obs EXCEPT ![p] =
                          IF status = "failed" THEN MarkFailed(@, f.k) ELSE @]
    /\ UNCHANGED <<db_users, db_combined, http, job, db_accounts, db_tweets, clock, runs>>

\* what one call of tweet_analysis can return: the error result of line
\* 216, or the result of lines 205-212 for a final answer. ExtractorReturns
\* states, and TLC confirms under SpecExtract, that the steps of
\* tweet_analysis below return these and nothing else.
AnalysisOutcomes ==
    {[response |-> None, result |-> FailedResult]} \cup
    {[response |-> content, result |-> final_answer(content)] : content \in Contents}

IsFailed(result) == "error" \in result.keys

\* lines 84-86: tweet_analysis returns and save_tweet is called. The awaits
\* inside tweet_analysis touch nothing but its own messages, so the loop
\* sees the call as one step.
Analyse(p) ==
    /\ pc[p] = "analysis"
    /\ \E out \in AnalysisOutcomes :
          /\ Apply(p, analysis_returns(frame[p], out.result, out.response, clock))
          /\ obs' = [obs EXCEPT ![p] =
                 [(IF IsFailed(out.result) THEN MarkFailed(@, frame[p].k) ELSE @)
                     EXCEPT !.save_log = Append(@, frame[p].ids[frame[p].k])]]
    /\ UNCHANGED <<db_users, db_combined, http, job, db_accounts, db_tweets, clock, runs, sequences>>

\* save_tweet lines 165-219: find_one answers; an existing document ends the
\* call, otherwise the document is built and insert_one is awaited
SaveFind(p) ==
    /\ pc[p] = "save_find"
    /\ LET f == frame[p]
       IN  \E store_ok \in BOOLEAN :
              IF ~store_ok
              THEN /\ Apply(p, save_returns(f, "failed", "store", clock))
                   /\ Finished(f)
                   /\ obs' = [obs EXCEPT ![p] = Again(MarkFailed(@, f.k), f)]
              ELSE IF find_one(db_tweets, lower(f.most_recent.username),
                               f.most_recent.id) # {}
              THEN /\ Apply(p, save_returns(f, "exists", "none", clock))
                   /\ Finished(f)
                   /\ obs' = [obs EXCEPT ![p] = Again(@, f)]
              ELSE IF SummaryRaises(f.tweet_analysis_result)
              THEN /\ Apply(p, save_returns(f, "failed", "validation", clock))
                   /\ Finished(f)
                   /\ obs' = [obs EXCEPT ![p] = Again(MarkFailed(@, f.k), f)]
              ELSE /\ Apply(p, [pc |-> "save_insert", frame |->
                          [f EXCEPT !.tweet_dict =
                              save_tweet_document(f.most_recent.username, f.most_recent,
                                                  f.tweet_analysis_result, clock)]])
                   /\ sequences' = sequences
                   /\ obs' = obs
    /\ UNCHANGED <<db_users, db_combined, http, job, db_accounts, db_tweets, clock, runs>>

\* save_tweet lines 224-230: insert_one answers
SaveInsert(p) ==
    /\ pc[p] = "save_insert"
    /\ LET f == frame[p]
       IN  \/ /\ db_tweets' = insert_one(db_tweets, f.tweet_dict)
              /\ Apply(p, save_returns(f, "created", "none", clock))
              /\ obs' = [obs EXCEPT ![p] = Again(@, f)]
              /\ sequences' = (sequences \ {ExtractionFailed(KeyOf(f))}) \cup {KeyOf(f)}
           \/ /\ db_tweets' = db_tweets
              /\ Apply(p, save_returns(f, "failed", "store", clock))
              /\ obs' = [obs EXCEPT ![p] = Again(MarkFailed(@, f.k), f)]
              /\ Finished(f)
    /\ UNCHANGED <<db_users, db_combined, http, job, db_accounts, clock, runs>>

\* line 92: asyncio.sleep(sleep_for) is over: the time is then sleep_until
\* at the least. Time is counted in the pauses only, a call that answers
\* takes none.
RateLimitWake(p) ==
    /\ pc[p] = "rl_sleep"
    /\ clock' = Max(clock, frame[p].sleep_until)
    /\ Apply(p, Continue(frame[p]))
    /\ UNCHANGED <<db_users, db_combined, http, job, db_accounts, db_tweets, runs, obs, sequences>>

\* lines 98-100: asyncio.sleep(900) is over, the next batch begins (the
\* locals of the last account are dead by then and are dropped)
BatchWake(p) ==
    /\ pc[p] = "batch_sleep"
    /\ clock' = clock + BATCH_PAUSE
    /\ Apply(p, [pc |-> "account", frame |->
           [Cleared(frame[p]) EXCEPT !.i = @ + BATCH_SIZE,
                                     !.k = frame[p].i + BATCH_SIZE + 1]])
    /\ UNCHANGED <<db_users, db_combined, http, job, db_accounts, db_tweets, runs, obs, sequences>>

\* the coroutine has returned (or raised) and its frame is gone
Return(p) ==
    /\ pc[p] \in {"done", "list_failed", "crashed"}
    /\ pc' = [pc EXCEPT ![p] = "idle"]
    /\ frame' = [frame EXCEPT ![p] = EmptyFrame]
    /\ obs' = [obs EXCEPT ![p] = EmptyObs]
    /\ UNCHANGED <<db_users, db_combined, http, job, db_accounts, db_tweets, clock, runs, sequences>>

Step(p) ==
    \/ SkipInvalid(p)
    \/ Fetch(p)
    \/ Check(p)
    \/ Analyse(p)
    \/ SaveFind(p)
    \/ SaveInsert(p)
    \/ RateLimitWake(p)
    \/ BatchWake(p)
    \/ Return(p)

\* the passes of the hourly job, one at a time
Next ==
    \/ Start(1, FALSE)
    \/ Step(1)

Spec == Init /\ [][Next]_vars

\* ------------------------------------------------ the interval trigger

\* db.accounts is the shortest listing with more than one batch of ids
InitSched ==
    LET long(n) == Len(get_all_unique_x_influencers_ids(SubSeq(AccountDocs, 1, n))) > BATCH_SIZE
        n == CHOOSE m \in 1..Len(AccountDocs) :
                 long(m) /\ \A k \in 1..(m - 1) : ~long(k)
    IN  Init /\ db_accounts = SubSeq(AccountDocs, 1, n)

\* the trigger of line 149 fires and the scheduler submits the run: the
\* pass starts in the first free slot
Fire ==
    \E p \in Procs :
        /\ pc[p] = "idle"
        /\ \A q \in Procs : pc[q] = "idle" => p <= q
        /\ Start(p, FALSE)

\* the trigger fires and the scheduler skips the run, because the instances
\* in flight have reached MAX_INSTANCES
Misfire ==
    /\ ~may_start
    /\ obs' = [q \in Procs |-> IF Running(q) THEN [obs[q] EXCEPT !.skipped = TRUE]
                                ELSE obs[q]]
    /\ UNCHANGED <<db_users, db_combined, http, job, db_accounts, db_tweets, clock, runs, pc, frame, sequences>>

\* the hourly trigger and the passes it starts; the trigger may fire at any
\* moment of a pass, a pass may outlast any number of intervals
NextSched ==
    \/ Fire
    \/ Misfire
    \/ \E p \in Procs : Step(p)

SpecSched == InitSched /\ [][NextSched]_vars

\* ------------------------------------------- tweet_analysis, step by step

\* the posts tweet_analysis is called with
ExtractPosts ==
    { [id |-> post.id, created_at |-> post.created_at, username |-> "alice"] :
        post \in ProviderPosts(ID_ALICE) }

\* tweet_analysis returns result for the final answer response
extract_returns(f, result, response) ==
    [pc |-> "returned",
     frame |-> [f EXCEPT !.tweet_analysis_result = result, !.response = response]]

\* lines 175-176: the messages are built and the first request is issued
CallAnalysis(p) ==
    /\ pc[p] = "idle"
    /\ runs < MaxRuns
    /\ runs' = runs + 1
    /\ \E data \in ExtractPosts :
          Apply(p, [pc |-> "gpt1", frame |->
              [EmptyFrame EXCEPT !.most_recent = data,
                                 !.messages = create_gpt_messages(data)]])
    /\ obs' = [obs EXCEPT ![p] = [EmptyObs EXCEPT !.requests = 1]]
    /\ UNCHANGED <<db_users, db_combined, http, job, db_accounts, db_tweets, clock, sequences>>

\* lines 176-203: the first completion answers. It raises (HTTPException
\* 500, caught at line 214), asks for tool calls, or answers
Gpt1(p) ==
    /\ pc[p] = "gpt1"
    /\ LET f == frame[p]
       IN  \/ Apply(p, extract_returns(f, FailedResult, None))
           \/ \E calls \in ToolCallLists :
                 Apply(p, [pc |-> "tools", frame |->
                     [f EXCEPT !.messages = Append(@, Msg("assistant", 0, None)),
                               !.tool_calls = calls,
                               !.tool_results = <<>>,
                               !.started = 0]])
           \/ \E content \in Contents :
                 Apply(p, extract_returns(f, final_answer(content), content))
    /\ UNCHANGED <<db_users, db_combined, http, job, db_accounts, db_tweets, clock, runs, obs, sequences>>

\* what a provider function can do.
\* get_token_price_cryptocompare: the USD value of the body (0 is a value),
\* None when the body has none or the request failed; only a
\* RequestException is caught, so a body that is not an object (null, a
\* number) raises out of the function.
\* get_token_price_binance: a price, None, or an exception other than
\* RequestException and ValueError (a body that is null).
\* get_token_price_gecko: a price or None, every exception is caught
ProviderOutcomes(prov) ==
    CASE prov = "cryptocompare" ->
             {Quote("none", 0), Quote("price", 5), Quote("price", 0), Quote("raise", 0)}
      [] prov = "binance" -> {Quote("none", 0), Quote("price", 6), Quote("raise", 0)}
      [] OTHER -> {Quote("none", 0), Quote("price", 7)}

\* the call reaches get_token_price: its arguments parse and it names the tool
IsLookup(call) == call.name = "get_token_price" /\ call.arguments # ARGS_BAD

\* handle_tool_calls line 154: the event loop starts the next gathered
\* execute_tool_call task, in request order. execute_tool_call has no await
\* that suspends it (_dispatch_tool_call is awaited inline and
\* get_token_price blocks in requests.get): a task is started when the task
\* before it has run to its end
StartToolCall(p) ==
    /\ pc[p] = "tools"
    /\ frame[p].started < Len(frame[p].tool_calls)
    /\ frame[p].started = Len(frame[p].tool_results)
    /\ obs' = [obs EXCEPT ![p].overlapped =
                  @ \/ frame[p].started > Len(frame[p].tool_results)]
    /\ frame' = [frame EXCEPT ![p].started = @ + 1]
    /\ UNCHANGED <<db_users, db_combined, http, job, db_accounts, db_tweets, clock, runs, pc, sequences>>

\* the started execute_tool_call task has its result: the providers have
\* answered the blocking requests of get_token_price
FinishToolCall(p) ==
    /\ pc[p] = "tools"
    /\ Len(frame[p].tool_results) < frame[p].started
    /\ LET f == frame[p]
           call == f.tool_calls[Len(f.tool_results) + 1]
       IN  \E cc \in ProviderOutcomes("cryptocompare"),
              bn \in ProviderOutcomes("binance"), gk \in ProviderOutcomes("gecko") :
              /\ frame' = [frame EXCEPT ![p].tool_results =
                              Append(@, execute_tool_call(call, cc, bn, gk))]
              /\ obs' = [obs EXCEPT ![p].lookup =
                            IF IsLookup(call)
                            THEN [called |-> TRUE, cc |-> cc, bn |-> bn, gk |-> gk,
                                  queried |-> providers_queried(cc, bn, gk),
                                  result |-> get_token_price(cc, bn, gk)]
                            ELSE NoLookup]
    /\ UNCHANGED <<db_users, db_combined, http, job, db_accounts, db_tweets, clock, runs, pc, sequences>>

\* handle_tool_calls lines 158-170 and tweet_analysis lines 199-200: with
\* every result in, the tool messages are appended and the follow-up request
\* is issued; a raised HTTPException ends the analysis with the error result
HandleToolCalls(p) ==
    /\ pc[p] = "tools"
    /\ Len(frame[p].tool_results) = Len(frame[p].tool_calls)
    /\ LET f == frame[p]
       IN  IF \E n \in 1..Len(f.tool_results) : f.tool_results[n].raised
           THEN /\ Apply(p, extract_returns(f, FailedResult, None))
                /\ obs' = obs
           ELSE /\ Apply(p, [pc |-> "gpt2", frame |->
                       [f EXCEPT !.messages = @ \o tool_messages(f.tool_results)]])
                /\ obs' = [obs EXCEPT ![p].requests = @ + 1]
    /\ UNCHANGED <<db_users, db_combined, http, job, db_accounts, db_tweets, clock, runs, sequences>>

\* lines 200-212: the follow-up completion answers
Gpt2(p) ==
    /\ pc[p] = "gpt2"
    /\ LET f == frame[p]
       IN  \/ /\ Apply(p, extract_returns(f, FailedResult, None))
              /\ obs' = obs
           \/ \E calls \in {<<>>, <<ToolCall(1, "get_token_price", ARGS_BTC)>>},
                 content \in Contents :
                 /\ obs' = [obs EXCEPT ![p].asked_again = (calls # <<>>)]
                 /\ IF after_final_completion(calls) = "tools"
                    THEN Apply(p, [pc |-> "tools", frame |->
                             [f EXCEPT !.messages = Append(@, Msg("assistant", 0, None)),
                                       !.tool_calls = calls,
                                       !.tool_results = <<>>,
                                       !.started = 0]])
                    ELSE Apply(p, extract_returns(f, final_answer(content), content))
    /\ UNCHANGED <<db_users, db_combined, http, job, db_accounts, db_tweets, clock, runs, sequences>>

\* the caller has the result
Returned(p) ==
    /\ pc[p] = "returned"
    /\ pc' = [pc EXCEPT ![p] = "idle"]
    /\ frame' = [frame EXCEPT ![p] = EmptyFrame]
    /\ obs' = [obs EXCEPT ![p] = EmptyObs]
    /\ UNCHANGED <<db_users, db_combined, http, job, db_accounts, db_tweets, clock, runs, sequences>>

InitExtract == Init /\ db_accounts = <<>>

NextExtract ==
    \/ CallAnalysis(1)
    \/ Gpt1(1)
    \/ StartToolCall(1)
    \/ FinishToolCall(1)
    \/ HandleToolCalls(1)
    \/ Gpt2(1)
    \/ Returned(1)

\* calls of tweet_analysis, one after the other
SpecExtract == InitExtract /\ [][NextExtract]_vars

\* what the steps of tweet_analysis return is one of AnalysisOutcomes, the
\* outcomes the loop of main.py is given in Analyse
ExtractorReturns ==
    \A p \in Procs :
        pc[p] = "returned" =>
            [response |-> frame[p].response,
             result |-> frame[p].tweet_analysis_result] \in AnalysisOutcomes

\* ------------------------------------------------- two passes at once

\* one invalid id and one account with a post
ConcDocs == SelectSeq(AccountDocs, LAMBDA d : d.username \in {"bad", "bob"})

InitConc ==
    /\ db_accounts = ConcDocs
    /\ db_tweets = EmptyBag
    /\ clock = 0
    /\ runs = 0
    /\ pc = [p \in Procs |-> "idle"]
    /\ frame = [p \in Procs |-> EmptyFrame]
    /\ obs = [p \in Procs |-> EmptyObs]
    /\ sequences = {}
    /\ db_users = InitialUsers(db_accounts)
    /\ db_combined = EmptyBag
    /\ http = NoResponse
    /\ job = IdleJob

\* two invocations of fetch_influencers_tweets against one store, each
\* suspended at its awaits while the other runs. The ids are one batch and
\* the provider has budget left, so the loop is never in one of its pauses.
NextConc ==
    \E p \in Procs :
        \/ Start(p, TRUE)
        \/ SkipInvalid(p)
        \/ Fetch(p)
        \/ Check(p)
        \/ Analyse(p)
        \/ SaveFind(p)
        \/ SaveInsert(p)
        \/ Return(p)

SpecConc == InitConc /\ [][NextConc]_vars

\* ---------------------------------------------------- the agent endpoints

\* a key the JSON body does not have (body.get gives None, body[...] raises
\* KeyError), or a query parameter the request does not have
Missing == "<missing>"

\* a value of the JSON body that is a list when it is of the right type:
\* the key is missing, the value is not a list, or it is the list value
Json(kind, value) == [kind |-> kind, value |-> value]

\* AgentModel(agent=..., accounts=account_refs, ...) makes an
\* AccountRefModel of every reference: influence has ge=0 and le=100; a
\* pydantic ValidationError is a ValueError
AgentModelValid(refs) ==
    \A n \in 1..Len(refs) : refs[n].influence >= 0 /\ refs[n].influence <= 100

ServiceResult(raised, users, status) ==
    [raised |-> raised, users |-> users, status |-> status]

\* lines 53-62: the references whose username the agent does not have yet
\* are appended as the dicts they are; the categories are united
merge_agent(agent, refs, categories) ==
    LET existing_usernames ==
            { agent.accounts[n].username : n \in 1..Len(agent.accounts) }
    IN  [agent EXCEPT
            !.accounts = @ \o SelectSeq(refs, LAMBDA r : r.username \notin existing_usernames),
            !.categories = @ \cup categories]

\* create_or_update_user_with_agent(data), called with a wallet address
create_or_update_user_with_agent(users, accounts, data) ==
    IF data.agentName = Missing
    THEN ServiceResult("KeyError", users, None)
    ELSE
    LET given == IF data.accounts.kind = "missing" THEN <<>> ELSE data.accounts.value
        \* lines 19-30: username stripped and lowercased, influence as given
        refs == [n \in 1..Len(given) |->
                    AccountRef(lower(strip(given[n].username)), given[n].influence)]
        categories == IF data.categories.kind = "missing" THEN {} ELSE data.categories.value
        existing == { u \in users : u.walletAddress = data.walletAddress }
    IN  \* lines 26-28: db.accounts.find_one({"username": username})
        IF \E n \in 1..Len(refs) :
              \A m \in 1..Len(accounts) : accounts[m].username # refs[n].username
        THEN ServiceResult("ValueError", users, None)
        ELSE IF existing = {}
        THEN IF AgentModelValid(refs)
             THEN ServiceResult("none",
                      users \cup {[walletAddress |-> data.walletAddress,
                                   agents |-> << Agent(data.agentName, refs, categories) >>]},
                      "created")
             ELSE ServiceResult("ValueError", users, None)
        ELSE
        LET existing_user == CHOOSE u \in existing : TRUE
            found == { a \in 1..Len(existing_user.agents) :
                         existing_user.agents[a].agent = data.agentName }
        IN  IF found # {}
            THEN LET a == CHOOSE x \in found : \A y \in found : x <= y
                 IN  ServiceResult("none",
                         (users \ {existing_user}) \cup
                             {[existing_user EXCEPT !.agents[a] =
                                  merge_agent(@, refs, categories)]},
                         "updated")
            ELSE IF AgentModelValid(refs)
            THEN ServiceResult("none",
                     (users \ {existing_user}) \cup
                         {[existing_user EXCEPT !.agents =
                              Append(@, Agent(data.agentName, refs, categories))]},
                     "updated")
            ELSE ServiceResult("ValueError", users, None)

\* update_user_agent(wallet, agent_name, ..., categories): an unknown user
\* or agent is a business error, else the agent takes the given categories
update_user_agent(users, wallet, agent_name, categories) ==
    LET existing == { u \in users : u.walletAddress = wallet /\
                        \E a \in 1..Len(u.agents) : u.agents[a].agent = agent_name }
    IN  IF existing = {}
        THEN ServiceResult("ValueError", users, None)
        ELSE LET u == CHOOSE x \in existing : TRUE
             IN  ServiceResult("none",
                     (users \ {u}) \cup
                         {[u EXCEPT !.agents =
                              [a \in 1..Len(u.agents) |->
                                  IF u.agents[a].agent = agent_name /\ categories.kind = "list"
                                  THEN [u.agents[a] EXCEPT !.categories = categories.value]
                                  ELSE u.agents[a]]]},
                     "updated")

\* delete_user_agent(wallet, agent_name): an unknown user or agent is a
\* business error, else the agent is removed from the user
delete_user_agent(users, wallet, agent_name) ==
    LET existing == { u \in users : u.walletAddress = wallet /\
                        \E a \in 1..Len(u.agents) : u.agents[a].agent = agent_name }
    IN  IF existing = {}
        THEN ServiceResult("ValueError", users, None)
        ELSE LET u == CHOOSE x \in existing : TRUE
             IN  ServiceResult("none",
                     (users \ {u}) \cup
                         {[u EXCEPT !.agents =
                              SelectSeq(@, LAMBDA a : a.agent # agent_name)]},
                     "deleted")

\* the except clauses the three endpoints share: ValueError is answered
\* with 409, any other exception (an HTTPException raised inside the try
\* block too) with 500
agent_endpoint_status(raised) ==
    CASE raised = "none" -> 200
      [] raised = "ValueError" -> 409
      [] OTHER -> 500

\* the requests of the model
ReqWallets == {Missing, "", "0xA"}

ReqAgentNames == {Missing, "alpha", "beta"}

ReqCategories == {Json("missing", {}), Json("list", {"stocks"})}

\* "zed" is in no document of db.accounts; " Bob " is "bob" once stripped
\* and lowercased, "Alice" is "alice" once lowercased
ReqAccounts ==
    { Json("missing", <<>>), Json("not_a_list", <<>>) } \cup
    { Json("list", l) :
        l \in { <<>>,
                << AccountRef("alice", 50) >>,
                << AccountRef("alice", 150) >>,
                << AccountRef(" Bob ", 100) >>,
                << AccountRef("bob", 0 - 1) >>,
                << AccountRef("zed", 50) >>,
                << AccountRef("alice", 50), AccountRef("Alice", 50) >>,
                << AccountRef("alice", 0), AccountRef("bob", 101) >> } }

\* the response of an endpoint and the request it answers: whether the
\* request lacked the wallet address or the agent name, and whether the
\* handler changed db.users
Respond(endpoint, wallet, agent_name, status_code, users) ==
    /\ http' = [endpoint |-> endpoint,
                lacks_required |-> (wallet = Missing \/ agent_name = Missing),
                status_code |-> status_code,
                changed |-> (users # db_users)]
    /\ db_users' = users
    /\ UNCHANGED <<db_accounts, db_tweets, clock, runs, pc, frame, obs, sequences,
                   db_combined, job>>

\* POST /user/agent/create
create_user ==
    \E wallet \in ReqWallets, agent_name \in ReqAgentNames,
       accounts \in ReqAccounts, categories \in ReqCategories :
        LET body == [walletAddress |-> wallet, agentName |-> agent_name,
                     accounts |-> accounts, categories |-> categories]
        IN  IF wallet \in {Missing, ""}
            THEN Respond("create", wallet, agent_name, 400, db_users)
            ELSE IF accounts.kind = "not_a_list"
            THEN Respond("create", wallet, agent_name, 400, db_users)
            ELSE LET r == create_or_update_user_with_agent(db_users, db_accounts, body)
                 IN  Respond("create", wallet, agent_name,
                             agent_endpoint_status(r.raised), r.users)

\* PUT /user/agent/update
update_user_agent_endpoint ==
    \E wallet \in ReqWallets, agent_name \in ReqAgentNames,
       categories \in ReqCategories :
        IF wallet \in {Missing, ""} \/ agent_name \in {Missing, ""}
        THEN Respond("update", wallet, agent_name,
                     agent_endpoint_status("HTTPException"), db_users)
        ELSE LET r == update_user_agent(db_users, wallet, agent_name, categories)
             IN  Respond("update", wallet, agent_name,
                         agent_endpoint_status(r.raised), r.users)

\* DELETE /user/agent: the two query parameters are required by the
\* signature, the framework answers 422 without calling the handler when
\* one is absent
delete_agent ==
    \E wallet_address \in ReqWallets, agent_name \in ReqAgentNames :
        IF wallet_address = Missing \/ agent_name = Missing
        THEN Respond("delete", wallet_address, agent_name, 422, db_users)
        ELSE IF strip(wallet_address) = "" \/ strip(agent_name) = ""
        THEN Respond("delete", wallet_address, agent_name,
                     agent_endpoint_status("HTTPException"), db_users)
        ELSE LET r == delete_user_agent(db_users, strip(wallet_address), strip(agent_name))
             IN  Respond("delete", wallet_address, agent_name,
                         agent_endpoint_status(r.raised), r.users)

\* the searches have saved two accounts, there is no user yet
InitApi ==
    /\ db_accounts = SelectSeq(AccountDocs, LAMBDA d : d.username \in {"alice", "bob"})
    /\ db_tweets = EmptyBag
    /\ clock = 0
    /\ runs = 0
    /\ pc = [p \in Procs |-> "idle"]
    /\ frame = [p \in Procs |-> EmptyFrame]
    /\ obs = [p \in Procs |-> EmptyObs]
    /\ sequences = {}
    /\ db_users = {}
    /\ db_combined = EmptyBag
    /\ http = NoResponse
    /\ job = IdleJob

\* requests to the agent endpoints, handled one after the other
NextApi ==
    \/ create_user
    \/ update_user_agent_endpoint
    \/ delete_agent

SpecApi == InitApi /\ [][NextApi]_vars

\* ------------------------------------------- combined_prediction_analysis

\* get_last_24h_predicted_tweets: the posts with a true prediction flag
\* created within the trailing window
get_last_24h_predicted_tweets(coll, now) ==
    { d \in BagToSet(coll) : d.prediction /\ d.created_at > now - WINDOW_SECONDS }

\* combined_predictions_analysis: what the model call can return for a
\* batch of posts, the empty batch included: no record, one or two
ModelAnswers ==
    { {},
      {[agent_id |-> "alpha", token |-> "BTC"]},
      {[agent_id |-> "alpha", token |-> "BTC"], [agent_id |-> "alpha", token |-> "ETH"]} }

\* save_combined_predictions: each resulting record is persisted
save_combined_predictions(coll, records) == coll (+) SetToBag(records)

\* the interval job of line 152 starts: line 104 logs and line 106 awaits
\* the read of the window
AggStart ==
    /\ job.pc = "idle"
    /\ runs < MaxRuns
    /\ runs' = runs + 1
    /\ job' = [IdleJob EXCEPT !.pc = "read", !.reads = 1]
    /\ UNCHANGED <<db_users, db_combined, http, db_accounts, db_tweets, clock, pc, frame,
                   obs, sequences>>

\* lines 106-108: the read returns and the model call is awaited, whatever
\* the number of posts; a read that raises is logged at line 118
AggRead ==
    /\ job.pc = "read"
    /\ \/ LET tweets_data == get_last_24h_predicted_tweets(db_tweets, clock)
          IN  job' = [job EXCEPT !.pc = "model",
                                 !.tweets_data = tweets_data,
                                 !.window_empty = (tweets_data = {}),
                                 !.model_calls = @ + 1]
       \/ job' = [job EXCEPT !.pc = "done"]
    /\ UNCHANGED <<db_users, db_combined, http, db_accounts, db_tweets, clock, runs, pc,
                   frame, obs, sequences>>

\* lines 108-111: the model call returns and the save is awaited; a model
\* call that raises is logged at line 118
AggModel ==
    /\ job.pc = "model"
    /\ \/ \E answer \in ModelAnswers :
             job' = [job EXCEPT !.pc = "save", !.tweet_analysis = answer,
                                !.saves = @ + 1]
       \/ job' = [job EXCEPT !.pc = "done", !.model_failed = TRUE]
    /\ UNCHANGED <<db_users, db_combined, http, db_accounts, db_tweets, clock, runs, pc,
                   frame, obs, sequences>>

\* lines 111-119: the save returns or raises; line 118 logs what was raised
\* and nothing leaves the function
AggSave ==
    /\ job.pc = "save"
    /\ \/ /\ db_combined' = save_combined_predictions(db_combined, job.tweet_analysis)
          /\ job' = [job EXCEPT !.pc = "done",
                                !.written = Cardinality(job.tweet_analysis)]
       \/ /\ db_combined' = db_combined
          /\ job' = [job EXCEPT !.pc = "done", !.save_failed = TRUE]
    /\ UNCHANGED <<db_users, http, db_accounts, db_tweets, clock, runs, pc, frame, obs,
                   sequences>>

\* the coroutine has returned; the next run is due an interval later
AggReturn ==
    /\ job.pc = "done"
    /\ job' = IdleJob
    /\ clock' = clock + AGG_INTERVAL
    /\ UNCHANGED <<db_users, db_combined, http, db_accounts, db_tweets, runs, pc, frame,
                   obs, sequences>>

\* the store of posts holds some of: an old prediction, a post without
\* prediction, a prediction of the last hours
InitAgg ==
    /\ db_accounts = <<>>
    /\ db_tweets \in { SetToBag(S) : S \in SUBSET
                         { Tweet("987", "alice", 0, TRUE, TRUE, "call"),
                           Tweet("988", "alice", WINDOW_SECONDS, TRUE, FALSE, "no call"),
                           Tweet("989", "alice", WINDOW_SECONDS, TRUE, TRUE, "call") } }
    /\ clock = WINDOW_SECONDS + 1
    /\ runs = 0
    /\ pc = [p \in Procs |-> "idle"]
    /\ frame = [p \in Procs |-> EmptyFrame]
    /\ obs = [p \in Procs |-> EmptyObs]
    /\ sequences = {}
    /\ db_users = {}
    /\ db_combined = EmptyBag
    /\ http = NoResponse
    /\ job = IdleJob

NextAgg ==
    \/ AggStart
    \/ AggRead
    \/ AggModel
    \/ AggSave
    \/ AggReturn

\* the runs of the aggregation job, one after the other
SpecAgg == InitAgg /\ [][NextAgg]_vars

\* ------------------------------------------------------------- the claims

\* the records of the store under the key of the post of f
StoredCount(f) ==
    CountKey(db_tweets, lower(f.most_recent.username), f.most_recent.id)

\* the records the sequence of f has inserted
InsertedBy(f) == IF f.save_result = "created" THEN 1 ELSE 0

\* the number of positions of s that hold x
Occurrences(s, x) == Cardinality({n \in 1..Len(s) : s[n] = x})

C2_UniqueUnderConcurrency ==
    \A d \in BagToSet(db_tweets) :
        CountKey(db_tweets, d.account_name, d.tweet_id) <= 1

\* C3: when the loop is about to issue the next provider fetch and the last
\* fetch reported a remaining budget of 0, the reported reset time has been
\* reached, whether the last account had no posts, its newest post was
\* already stored, or its newest post was newly stored.
C3_PacedBeforeNextFetch ==
    \A p \in Procs :
        ( /\ pc[p] = "account"
          /\ ValidId(frame[p].ids[frame[p].k])
          /\ frame[p].remaining = 0
          /\ \/ frame[p].tweets = <<>>
             \/ frame[p].res = "exists"
             \/ frame[p].save_result = "created" )
        => clock >= frame[p].reset_time

\* the tracked ids that are non-empty strings of digits, in listing order
ValidTracked(ids) == SelectSeq(ids, LAMBDA u : u # <<>> /\ isdigit(u))

\* C4: when an invocation has returned, get_user_tweets was called exactly
\* once for every tracked account id that is a non-empty string of digits,
\* never for a tracked id that is empty or not numeric, and for nothing else.
C4_ExactlyOnceVisiting ==
    \A p \in Procs :
        pc[p] = "done" =>
            /\ \A n \in 1..Len(db_accounts) :
                  db_accounts[n].has_id =>
                      Occurrences(obs[p].fetch_log, db_accounts[n].x_user_id) =
                          IF db_accounts[n].x_user_id # <<>> /\ isdigit(db_accounts[n].x_user_id)
                          THEN 1 ELSE 0
            /\ \A x \in Range(obs[p].fetch_log) :
                  \E n \in 1..Len(db_accounts) :
                      db_accounts[n].has_id /\ db_accounts[n].x_user_id = x

\* an invocation over more than one batch has returned: it skipped the
\* invalid id and fetched both sides of the batch boundary
C4_Witness ==
    \E p \in Procs :
        /\ pc[p] = "done"
        /\ Len(frame[p].ids) > BATCH_SIZE
        /\ \E n \in 1..Len(frame[p].ids) : ~ValidId(frame[p].ids[n])
        /\ Occurrences(obs[p].fetch_log, frame[p].ids[BATCH_SIZE]) = 1
        /\ Occurrences(obs[p].fetch_log, frame[p].ids[BATCH_SIZE + 1]) = 1

\* C5: the invocation never ends with an exception of one account's
\* processing, and an invocation in which an account failed (its fetch, its
\* sort, its existence check, its analysis or its save) has still fetched
\* every valid account, in order, when it returns.
C5_FailureIsolation ==
    \A p \in Procs :
        /\ pc[p] # "crashed"
        /\ (pc[p] = "done" /\ obs[p].failed) =>
              obs[p].fetch_log = ValidTracked(frame[p].ids)

\* an account of the first batch failed, and the invocation has gone on
\* through the rest of the batch and the pause to the first account of the
\* second batch
C5_Witness ==
    \E p \in Procs :
        /\ pc[p] = "account"
        /\ obs[p].failed
        /\ frame[p].i = BATCH_SIZE
        /\ frame[p].k = BATCH_SIZE + 1
        /\ obs[p].fetch_log # <<>>

\* a requested call that makes execute_tool_call raise: its arguments parse
\* and it names a function other than the supported tool
Unsupported(call) == call.name # "get_token_price" /\ call.arguments # ARGS_BAD

\* the text the model gave as its final answer is empty
EmptyAnswer(response) == response = None \/ strip(response) = ""

\* C6, as stated: tweet_analysis never issues more than two model requests,
\* and a call in which the first response requested tool calls has issued
\* exactly one follow-up request when it returns.
C6_ExactlyOneFollowUp ==
    \A p \in Procs :
        /\ obs[p].requests <= 2
        /\ (pc[p] = "returned" /\ frame[p].tool_calls # <<>>) => obs[p].requests = 2

\* C6, amended: tweet_analysis never issues more than two model requests,
\* also when the follow-up response requests tool calls again; when the
\* first response requested tool calls, the follow-up request is issued
\* once, after every call has its result, unless a call names a function
\* other than the supported tool: then no follow-up request is issued and
\* the error result is returned.
C6_RoundTripBound ==
    \A p \in Procs :
        /\ obs[p].requests <= 2
        /\ pc[p] = "gpt2" =>
              /\ obs[p].requests = 2
              /\ Len(frame[p].tool_results) = Len(frame[p].tool_calls)
        /\ (pc[p] = "returned" /\ frame[p].tool_calls # <<>>) =>
              IF \E n \in 1..Len(frame[p].tool_calls) : Unsupported(frame[p].tool_calls[n])
              THEN obs[p].requests = 1 /\ IsFailed(frame[p].tweet_analysis_result)
              ELSE obs[p].requests = 2

\* the first response requested MaxToolCalls calls, the follow-up response
\* requested a call again, and tweet_analysis returned after two requests
C6_Witness ==
    \E p \in Procs :
        /\ pc[p] = "returned"
        /\ Len(frame[p].tool_calls) = MaxToolCalls
        /\ obs[p].asked_again
        /\ obs[p].requests = 2

\* C7: when tweet_analysis returns for a final answer that is empty or is not
\* JSON, the result has the prediction flag, the flag is false, the result
\* has a reason, and in the unparseable case it carries the raw text.
C7_DegradedResult ==
    \A p \in Procs :
        ( /\ pc[p] = "returned"
          /\ ~IsFailed(frame[p].tweet_analysis_result)
          /\ EmptyAnswer(frame[p].response) \/ ~json_ok(frame[p].response) )
        => /\ "is_prediction" \in frame[p].tweet_analysis_result.keys
           /\ ~frame[p].tweet_analysis_result.is_prediction
           /\ "reason" \in frame[p].tweet_analysis_result.keys
           /\ ~EmptyAnswer(frame[p].response) =>
                 frame[p].tweet_analysis_result.raw_response = frame[p].response

\* C8: when save_tweet has returned for a new post whose model output was
\* not valid structured data, and the store itself did not fail, a record
\* for the (account, post id) is in the store.
C8_StoredOnParseFailure ==
    \A p \in Procs :
        ( /\ frame[p].save_result # "unset"
          /\ frame[p].res = "not_found"
          /\ "parse_error" \in frame[p].tweet_analysis_result.keys
          /\ frame[p].save_error \notin {"store", "attribute"} )
        => StoredCount(frame[p]) >= 1

\* C9: the post that is checked, analysed and saved is one of the fetched
\* posts and no fetched post has a later creation time; the document that
\* save_tweet inserts, and the one it has inserted, is the document of that
\* post.
C9_NewestFirst ==
    \A p \in Procs :
        /\ frame[p].most_recent # NoPost =>
              /\ \E n \in 1..Len(frame[p].tweets) :
                    frame[p].tweets[n].id = frame[p].most_recent.id
              /\ \A n \in 1..Len(frame[p].tweets) :
                    frame[p].tweets[n].created_at.t <= frame[p].most_recent.created_at.t
        /\ (pc[p] = "save_insert" \/ frame[p].save_result = "created") =>
              /\ frame[p].tweet_dict.tweet_id = frame[p].most_recent.id
              /\ frame[p].tweet_dict.created_at = frame[p].most_recent.created_at.t
              /\ \A n \in 1..Len(frame[p].tweets) :
                    frame[p].tweets[n].created_at.t <= frame[p].tweet_dict.created_at

\* two posts were fetched, older first, and the newer one has been stored
C9_Witness ==
    \E p \in Procs :
        /\ Len(frame[p].tweets) = 2
        /\ frame[p].save_result = "created"
        /\ frame[p].most_recent.id = "988"
        /\ StoredCount(frame[p]) = 1

\* C10: while tweet_analysis or save_tweet runs for a post, the store holds
\* no record of that (account, post id).
C10_NoReprocessing ==
    \A p \in Procs :
        pc[p] \in {"analysis", "save_find", "save_insert"} =>
            StoredCount(frame[p]) = 0

\* what the provider function prov returned in the lookup l
OutcomeOf(l, prov) ==
    CASE prov = "cryptocompare" -> l.cc
      [] prov = "binance" -> l.bn
      [] OTHER -> l.gk

\* C11: one call of get_token_price calls the provider functions in the
\* order CryptoCompare, Binance, CoinGecko, each at most once; a provider is
\* called only if every provider before it returned no price; the call stops
\* at the first provider that returns a price and returns that price.
C11_ProviderPriority ==
    \A p \in Procs :
        LET l == obs[p].lookup
        IN  l.called =>
                /\ l.queried # <<>>
                /\ l.queried = SubSeq(Providers, 1, Len(l.queried))
                /\ \A n \in 1..(Len(l.queried) - 1) :
                      OutcomeOf(l, l.queried[n]).kind = "none"
                /\ \A n \in 1..Len(l.queried) :
                      OutcomeOf(l, l.queried[n]).kind = "price" =>
                          /\ n = Len(l.queried)
                          /\ l.result = OutcomeOf(l, l.queried[n])
                /\ l.result.kind = "price" =>
                      l.result = OutcomeOf(l, l.queried[Len(l.queried)])

\* CryptoCompare and Binance had no price, CoinGecko was asked last and its
\* price was returned
C11_Witness ==
    \E p \in Procs :
        /\ obs[p].lookup.called
        /\ obs[p].lookup.cc.kind = "none"
        /\ obs[p].lookup.bn.kind = "none"
        /\ obs[p].lookup.queried = Providers
        /\ obs[p].lookup.result = Quote("price", 7)

\* C12: when every provider fails in a call of get_token_price (no price,
\* or a body the provider function cannot read), the call returns None
\* without raising and the tool call has a string result for the model.
C12_GracefulPriceDegradation ==
    \A p \in Procs :
        LET l == obs[p].lookup
            f == frame[p]
        IN  ( /\ l.called
              /\ l.cc.kind \in {"none", "raise"}
              /\ l.bn.kind \in {"none", "raise"}
              /\ l.gk.kind = "none" )
            => /\ l.result.kind = "none"
               /\ f.tool_results # <<>> =>
                     /\ ~f.tool_results[Len(f.tool_results)].raised
                     /\ f.tool_results[Len(f.tool_results)].content # None

\* C14: when the first response requested two or more quote lookups and all
\* of them have their results, one of them began while another had begun
\* and not finished.
C14_ConcurrentFanOut ==
    \A p \in Procs :
        ( /\ pc[p] = "gpt2"
          /\ Len(frame[p].tool_calls) >= 2
          /\ \A n \in 1..Len(frame[p].tool_calls) : IsLookup(frame[p].tool_calls[n]) )
        => obs[p].overlapped

\* C13: at no time are two passes of fetch_influencers_tweets in flight; the
\* scheduler starts no pass while an earlier one runs, whatever the number
\* of times the trigger fires during the pass and its sleeps.
C13_NonOverlapping ==
    /\ RunningInstances <= MAX_INSTANCES
    /\ \A p, q \in Procs : (Running(p) /\ Running(q)) => p = q

\* the trigger fired while a pass was in its pause between two batches, and
\* the run was skipped
C13_Witness ==
    \E p \in Procs :
        /\ pc[p] = "batch_sleep"
        /\ obs[p].skipped
        /\ RunningInstances = 1

\* C16: check_tweet_exists and save_tweet never raise into the loop; a step
\* in which one of them returns status "failed" leaves the store as it was;
\* in one invocation save_tweet is called at most once for an account, and
\* only for an account that was fetched.
C16_FailuresStayAtStore ==
    [][ \A p \in Procs :
          /\ pc'[p] # "crashed"
          /\ ( \/ frame'[p].res = "failed" /\ frame[p].res # "failed"
               \/ frame'[p].save_result = "failed" /\ frame[p].save_result # "failed" )
             => db_tweets' = db_tweets
          /\ frame'[p].save_calls <= 1
          /\ \A x \in Range(obs'[p].save_log) :
                /\ Occurrences(obs'[p].save_log, x) = 1
                /\ Occurrences(obs'[p].fetch_log, x) = 1 ]_vars

\* insert_one failed for a new post: save_tweet was called once, returned
\* "failed", no record of the post is stored and the loop has moved on
C16_Witness ==
    \E p \in Procs :
        /\ frame[p].save_result = "failed"
        /\ frame[p].save_error = "store"
        /\ frame[p].res = "not_found"
        /\ frame[p].save_calls = 1
        /\ Len(obs[p].save_log) = 1
        /\ StoredCount(frame[p]) = 0
        /\ pc[p] \in {"account", "rl_sleep", "batch_sleep", "done"}

\* C17: no step removes a stored record or changes a field of one: every
\* record of the store is in the store after the step, as many times as
\* before and with every field as it was, whatever save_tweet calls and
\* invocations follow.
C17_PostImmutability ==
    [][ \A d \in BagToSet(db_tweets) : CopiesIn(d, db_tweets') >= CopiesIn(d, db_tweets) ]_vars

\* a later invocation met a stored post again and stored a newer post of
\* the same account next to it
C17_Witness ==
    \E p \in Procs :
        /\ runs = MaxRuns
        /\ frame[p].save_result = "created"
        /\ \E d, e \in BagToSet(db_tweets) :
              /\ d.account_name = e.account_name
              /\ d.tweet_id # e.tweet_id
              /\ e.tweet_id = frame[p].most_recent.id

\* C18: an invocation polls only accounts that an agent of some user
\* references, and when it has returned it has polled every referenced
\* account that has a valid provider id.
C18_PollingUniverse ==
    LET \* the provider ids of the accounts some agent references
        ReferencedIds ==
            { db_accounts[n].x_user_id :
                n \in { m \in 1..Len(db_accounts) :
                          /\ db_accounts[m].has_id
                          /\ db_accounts[m].x_user_id # <<>>
                          /\ lower(db_accounts[m].username) \in
                                 ReferencedHandles(db_users) } }
    IN  \A p \in Procs :
            /\ Range(obs[p].fetch_log) \subseteq ReferencedIds
            /\ pc[p] = "done" =>
                  \A x \in ReferencedIds : ValidId(x) => x \in Range(obs[p].fetch_log)

\* C19: every account reference stored in an agent of a user has an
\* influence between 0 and 100, whatever calls of
\* create_or_update_user_with_agent came before.
C19_InfluenceRange ==
    \A u \in db_users :
        \A a \in 1..Len(u.agents) :
            \A n \in 1..Len(u.agents[a].accounts) :
                /\ u.agents[a].accounts[n].influence >= 0
                /\ u.agents[a].accounts[n].influence <= 100

\* C20: a request to the create, update or delete endpoint of the agents
\* that lacks the wallet address or the agent name is answered with a
\* status code from 400 to 499 and leaves db.users as it was.
C20_ValidationIsClientError ==
    http.lacks_required =>
        /\ http.status_code >= 400
        /\ http.status_code <= 499
        /\ ~http.changed

\* C15: one run of combined_prediction_analysis reads the window, calls the
\* model and saves at most once each, never ends with an exception, and
\* writes no record when the window was empty, the model call failed or the
\* save failed.
C15_AggregationFailurePolicy ==
    /\ job.reads <= 1
    /\ job.model_calls <= 1
    /\ job.saves <= 1
    /\ job.pc # "crashed"
    /\ ~job.raised
    /\ (job.window_empty \/ job.model_failed \/ job.save_failed) => job.written = 0

\* C24: no agent of any user holds two account references with the same
\* lowercased username, whatever create_or_update_user_with_agent calls were
\* made, also when a request lists a username more than once or repeats a
\* username the agent already has.
C24_UniqueAccountRefs ==
    \A u \in db_users :
        \A a \in 1..Len(u.agents) :
            \A n, m \in 1..Len(u.agents[a].accounts) :
                lower(u.agents[a].accounts[n].username) =
                    lower(u.agents[a].accounts[m].username) => n = m

\* C23: when tweet_analysis has returned its error result for a post the
\* store had no record of and save_tweet has returned, save_tweet returned
\* status "failed" and the store is exactly as it was when the processing
\* of the account began; the store has no record of a post whose extraction
\* failed until a later sequence inserts one, and an invocation that meets
\* such a post does not find it stored and calls tweet_analysis for it again.
C23_ExtractionErrorLeavesStore ==
    /\ \A p \in Procs :
          ( /\ IsFailed(frame[p].tweet_analysis_result)
            /\ frame[p].save_result # "unset"
            /\ CountKey(obs[p].store_before, KeyOf(frame[p])[1], KeyOf(frame[p])[2]) = 0 )
          => /\ frame[p].save_result = "failed"
             /\ db_tweets = obs[p].store_before
             /\ StoredCount(frame[p]) = 0
    /\ \A d \in BagToSet(db_tweets) :
          ExtractionFailed(<<d.account_name, d.tweet_id>>) \notin sequences
    /\ \A p \in Procs :
          ( /\ frame[p].most_recent # NoPost
            /\ ExtractionFailed(KeyOf(frame[p])) \in sequences
            /\ frame[p].res # "unset" )
          => /\ frame[p].res # "exists"
             /\ pc[p] = "analysis" \/ frame[p].save_calls >= 1

\* the extraction of a post failed in an earlier invocation and left no
\* record; this invocation found the post not stored, extracted it again,
\* this time with an answer, and is about to insert the record
C23_Witness ==
    \E p \in Procs :
        /\ pc[p] = "save_insert"
        /\ ExtractionFailed(KeyOf(frame[p])) \in sequences
        /\ frame[p].res = "not_found"
        /\ ~IsFailed(frame[p].tweet_analysis_result)
        /\ StoredCount(frame[p]) = 0

\* --------------------------------------------------- save_tweet on its own

\* the formats of a created_at string, and "none" for a missing created_at
StampFormats == {"isoZ", "space", "native", "unknown", "none"}

\* save_tweet(account_name, tweet_data, summary_data) is called at time
\* clock for a post the store has no record of: tweet_data carries a
\* created_at of any format, summary_data is any result of tweet_analysis
InitSave ==
    /\ db_accounts = <<>>
    /\ db_tweets = EmptyBag
    /\ clock \in 0..(MaxTime + 1)
    /\ runs = 1
    /\ pc = [p \in Procs |-> IF p = 1 THEN "save_find" ELSE "idle"]
    /\ \E fmt \in StampFormats, t \in 0..MaxTime, out \in AnalysisOutcomes :
          frame = [p \in Procs |->
                      IF p = 1
                      THEN [EmptyFrame EXCEPT
                               !.ids = <<ID_ALICE>>, !.k = 1,
                               !.most_recent = [id |-> "989", username |-> "alice",
                                                created_at |-> Stamp(fmt, t)],
                               !.res = "not_found",
                               !.tweet_analysis_result = out.result,
                               !.response = out.response,
                               !.save_calls = 1]
                      ELSE EmptyFrame]
    /\ obs = [p \in Procs |-> EmptyObs]
    /\ sequences = {}
    /\ db_users = {}
    /\ db_combined = EmptyBag
    /\ http = NoResponse
    /\ job = IdleJob

NextSave ==
    \/ SaveFind(1)
    \/ SaveInsert(1)

SpecSave == InitSave /\ [][NextSave]_vars

\* C22: the document save_tweet inserts, and has inserted, carries the time
\* the created_at string denotes when the string is in one of the three
\* known formats (ISO-8601 with Z, space-separated, the provider's native
\* format), and the time of the call when created_at is missing or in no
\* known format; save_tweet does not fail because of the timestamp.
C22_TimestampNormalisation ==
    \A p \in Procs :
        /\ (pc[p] = "save_insert" \/ frame[p].save_result = "created") =>
              frame[p].tweet_dict.created_at =
                  IF frame[p].most_recent.created_at.fmt \in {"isoZ", "space", "native"}
                  THEN frame[p].most_recent.created_at.t
                  ELSE clock
        /\ frame[p].save_result = "failed" =>
              frame[p].save_error \in {"store", "validation"}

\* the tool messages of the conversation, in order
ToolMessagesOf(f) == SelectSeq(f.messages, LAMBDA msg : msg.role = "tool")

\* the conversation holds one tool message per requested call, in request
\* order, each with the id of its call and a content string: the error
\* string for arguments that do not parse, else the price as a string, the
\* no-data string or the error string of a failed lookup
AnsweredInOrder(f) ==
    /\ Len(ToolMessagesOf(f)) = Len(f.tool_calls)
    /\ \A n \in 1..Len(f.tool_calls) :
          /\ ToolMessagesOf(f)[n].tool_call_id = f.tool_calls[n].id
          /\ ToolMessagesOf(f)[n].content \in
                 IF f.tool_calls[n].arguments = ARGS_BAD
                 THEN {"Error executing function"}
                 ELSE {"Error executing function", "No data found.",
                       PriceStr(5), PriceStr(6), PriceStr(7)}
    /\ SubSeq(f.messages, Len(f.messages) - Len(f.tool_calls) + 1, Len(f.messages)) =
           ToolMessagesOf(f)

\* C21, as stated: whenever the first response requested tool calls, the
\* conversation holds exactly one tool message per requested call, in
\* request order, when the second request is issued, and the second request
\* is always issued: tweet_analysis does not return without it.
C21_ToolResultsAlways ==
    \A p \in Procs :
        frame[p].tool_calls # <<>> =>
            /\ pc[p] = "gpt2" => AnsweredInOrder(frame[p]) /\ obs[p].requests = 2
            /\ pc[p] = "returned" => AnsweredInOrder(frame[p]) /\ obs[p].requests = 2

\* C21, amended: whenever the first response requested tool calls and no
\* requested call with parseable arguments names a function other than the
\* supported tool, the conversation holds exactly one tool message per
\* requested call, in request order, when the second request is issued, and
\* the second request is issued; no tool message is appended before every
\* call has its result. When a requested call with parseable arguments
\* names another function, no tool message is appended, no second request
\* is issued and tweet_analysis returns its error result.
C21_ToolResultsPrecedeFinalCall ==
    \A p \in Procs :
        frame[p].tool_calls # <<>> =>
            /\ pc[p] = "tools" => ToolMessagesOf(frame[p]) = <<>> /\ obs[p].requests = 1
            /\ pc[p] = "gpt2" =>
                  /\ AnsweredInOrder(frame[p])
                  /\ obs[p].requests = 2
                  /\ \A n \in 1..Len(frame[p].tool_calls) :
                        ~Unsupported(frame[p].tool_calls[n])
            /\ pc[p] = "returned" =>
                  IF \E n \in 1..Len(frame[p].tool_calls) : Unsupported(frame[p].tool_calls[n])
                  THEN /\ ToolMessagesOf(frame[p]) = <<>>
                       /\ obs[p].requests = 1
                       /\ IsFailed(frame[p].tweet_analysis_result)
                  ELSE AnsweredInOrder(frame[p]) /\ obs[p].requests = 2

\* the first response requested MaxToolCalls calls, the first with
\* arguments that do not parse and the last a lookup that found a price;
\* both have their tool message and tweet_analysis returned an answer after
\* the second request
C21_Witness ==
    \E p \in Procs :
        /\ pc[p] = "returned"
        /\ Len(frame[p].tool_calls) = MaxToolCalls
        /\ frame[p].tool_calls[1].arguments = ARGS_BAD
        /\ Len(ToolMessagesOf(frame[p])) = MaxToolCalls
        /\ ToolMessagesOf(frame[p])[1].content = "Error executing function"
        /\ ToolMessagesOf(frame[p])[MaxToolCalls].tool_call_id = MaxToolCalls
        /\ ToolMessagesOf(frame[p])[MaxToolCalls].content = PriceStr(6)
        /\ obs[p].requests = 2
        /\ ~IsFailed(frame[p].tweet_analysis_result)

=============================================================================
